---- MODULE Spec2Model ----
(***************************************************************************)
(* The two ContactForm components of brood-pro-web/buildingmanual.md       *)
(* (first example: lines 105-206, second example: lines 323-405) as one    *)
(* state machine (`example` says which of the two is mounted), and the     *)
(* landing page of brood-pro-web/src/App.jsx, which mounts neither of them. *)
(* A step is one event-loop task: a change event, a submit event, or the   *)
(* continuation of handleSubmit after one of its awaits settles.           *)
(***************************************************************************)
EXTENDS Naturals, Sequences, FiniteSets

VARIABLES example, formData, status, pending, submits, sent, successes, lastEvent,
          component, tree

vars == <<example, formData, status, pending, submits, sent, successes, lastEvent,
          component, tree>>

(* ---- bounds ---- *)
MaxSubmits == 2
MaxPending == 2

(* ---- the data ---- *)
Examples == {1, 2}

(* the page shows the landing page or one of the contact forms, never both *)
Components == {"App", "ContactForm"}
Fields == {"name", "email", "message"}
Typed == {"a", "b"}
Values == {""} \cup Typed

Events ==
  {"mount", "change", "submit", "ok", "notOk", "jsonParsed", "jsonFails", "rejected", "render"}

EmptyForm == [name |-> "", email |-> "", message |-> ""]

InitialStatus(ex) == IF ex = 1 THEN "null" ELSE ""

SubmittingStatus(ex) == IF ex = 1 THEN "submitting" ELSE "Sending..."

SuccessStatus(ex) == IF ex = 1 THEN "success" ELSE "Message sent successfully!"

(* a status value the render does not test for *)
HttpErrorStatus_Unrendered(ex) == IF ex = 1 THEN "failed" ELSE "failed to send"

HttpErrorStatus(ex) == IF ex = 1 THEN "error" ELSE "Failed to send message."

(* the catch block of the second example pasted into the first *)
CatchStatus_Pasted(ex) == "An error occurred."

CatchStatus(ex) == IF ex = 1 THEN "error" ELSE "An error occurred."

(* What the component shows for a status value: the spec's SubmissionStatus. *)
SubmissionStatus(ex, s) ==
  IF ex = 1
  THEN CASE s = "null" -> "idle"
         [] s = "submitting" -> "submitting"
         [] s = "success" -> "success"
         [] s = "error" -> "error"
         [] OTHER -> "unknown"
  ELSE CASE s = "" -> "idle"
         [] s = "Sending..." -> "submitting"
         [] s = "Message sent successfully!" -> "success"
         [] s = "Failed to send message." -> "error"
         [] s = "An error occurred." -> "error"
         [] OTHER -> "unknown"

(* The text the component renders under the form. *)
Message(ex, s) ==
  IF ex = 1
  THEN CASE s = "success" -> "Message sent successfully!"
         [] s = "error" -> "Error sending message. Please try again."
         [] OTHER -> ""
  ELSE s

SubmitDisabled == example = 1 /\ status = "submitting"

RequiredFilled == \A f \in Fields : formData[f] # ""

(* a payload built without the message field *)
Stringify_NoMessage(fd) ==
  << <<"name", fd.name>>, <<"email", fd.email>> >>

(* JSON.stringify of the form object: its keys in insertion order. *)
Stringify(fd) ==
  << <<"name", fd.name>>, <<"email", fd.email>>, <<"message", fd.message>> >>

Remove(s, i) == SubSeq(s, 1, i - 1) \o SubSeq(s, i + 1, Len(s))

(* ---- the landing page (src/App.jsx) ---- *)
logo == "./logos/logo4.png"

heroImage == "./images/Gemini_Generated_Image_h25qwth25qwth25q-Photoroom 2.png"

Text(t) == [tag |-> "#text", text |-> t]

Img(cls, src, alt) == [tag |-> "img", className |-> cls, src |-> src, alt |-> alt]

El(tag, cls, children) == [tag |-> tag, className |-> cls, children |-> children]

(* a menu toggle that carries the label of the nav item next to it *)
navButton_Labelled ==
  El("div", "nav-hm-button-container", <<
    El("div", "nav-hm-button on", <<
      El("div", "nav-hm-line", <<>>),
      El("div", "nav-hm-line", <<>>),
      El("div", "nav-hm-line", <<>>),
      Text("Apply now") >>) >>)

navButton ==
  El("div", "nav-hm-button-container", <<
    El("div", "nav-hm-button on", <<
      El("div", "nav-hm-line", <<>>),
      El("div", "nav-hm-line", <<>>),
      El("div", "nav-hm-line", <<>>) >>) >>)

App ==
  El("fragment", "", <<
    El("div", "header", <<
      El("div", "logo", <<
        Img("logo-photo", logo, "logo"),
        El("h1", "logo-text", << Text("Broodpro") >>) >>),
      El("nav", "nav-lists", <<
        El("p", "nav-item", << Text("Apply now") >>),
        navButton >>) >>),
    El("body", "", <<
      El("div", "hero-container", <<
        El("div", "hero-section", <<
          El("div", "hero-text-container", <<
            El("h1", "hero-text", << Text("Stay in") >>),
            El("h1", "hero-text", << Text("school") >>),
            El("h1", "hero-text", << Text("peeps") >>) >>),
          El("p", "hero-subtext", << Text("And yes. We can help make that a reality.") >>) >>),
        El("div", "button-container", <<
          El("p", "button-text", << Text("Join the program") >>) >>) >>) >>),
    El("div", "hero-image", << Img("", heroImage, "graduants") >>) >>)

(* the tree before the first render *)
Unrendered == El("fragment", "", <<>>)

RECURSIVE Leaves(_), LeavesOf(_)

(* the text and image nodes of a tree, in document order *)
Leaves(n) == IF n.tag \in {"#text", "img"} THEN <<n>> ELSE LeavesOf(n.children)

LeavesOf(ns) == IF ns = <<>> THEN <<>> ELSE Leaves(Head(ns)) \o LeavesOf(Tail(ns))

TextCount(n, t) ==
  LET ls == Leaves(n)
  IN  Cardinality({i \in DOMAIN ls : ls[i].tag = "#text" /\ ls[i].text = t})

ImageCount(n, src) ==
  LET ls == Leaves(n)
  IN  Cardinality({i \in DOMAIN ls : ls[i].tag = "img" /\ ls[i].src = src})

Init ==
  /\ component \in Components
  /\ example \in Examples
  /\ formData = EmptyForm
  /\ status = InitialStatus(example)
  /\ pending = <<>>
  /\ submits = 0
  /\ sent = 0
  /\ successes = <<>>
  /\ lastEvent = "mount"
  /\ tree = Unrendered

(* ---- the handlers ---- *)
(* a change handler without the spread of the previous formData *)
handleChange_NoSpread(f, v) ==
  /\ formData' = [EmptyForm EXCEPT ![f] = v]
  /\ UNCHANGED <<example, component, tree, status, pending, submits, sent, successes>>
  /\ lastEvent' = "change"

(* a change handler that also clears the status line *)
handleChange_ResetsStatus(f, v) ==
  /\ formData' = [formData EXCEPT ![f] = v]
  /\ status' = InitialStatus(example)
  /\ UNCHANGED <<example, component, tree, pending, submits, sent, successes>>
  /\ lastEvent' = "change"

handleChange(f, v) ==
  /\ formData' = [formData EXCEPT ![f] = v]
  /\ UNCHANGED <<example, component, tree, status, pending, submits, sent, successes>>
  /\ lastEvent' = "change"

handleSubmit ==
  /\ ~SubmitDisabled
  /\ RequiredFilled
  /\ submits < MaxSubmits
  /\ Len(pending) < MaxPending
  /\ status' = SubmittingStatus(example)
  /\ pending' = Append(pending,
                  [formData |-> formData, body |-> Stringify(formData), await |-> "fetch"])
  /\ submits' = submits + 1
  /\ sent' = sent + 1
  /\ UNCHANGED <<example, component, tree, formData, successes>>
  /\ lastEvent' = "submit"

(* the success branch without its setFormData call *)
ResponseOk_NoReset(i) ==
  /\ pending[i].await = "fetch"
  /\ status' = SuccessStatus(example)
  /\ pending' = Remove(pending, i)
  /\ successes' = Append(successes, [formData |-> pending[i].formData, body |-> pending[i].body,
                                   after |-> <<status', formData>>])
  /\ UNCHANGED <<example, component, tree, formData, submits, sent>>
  /\ lastEvent' = "ok"

(* the success branch without the field named message in its reset *)
ResponseOk_KeepsMessage(i) ==
  /\ pending[i].await = "fetch"
  /\ status' = SuccessStatus(example)
  /\ formData' = [EmptyForm EXCEPT !.message = formData.message]
  /\ pending' = Remove(pending, i)
  /\ successes' = Append(successes, [formData |-> pending[i].formData, body |-> pending[i].body,
                                   after |-> <<status', formData'>>])
  /\ UNCHANGED <<example, component, tree, submits, sent>>
  /\ lastEvent' = "ok"

(* fetch resolves with response.ok *)
ResponseOk(i) ==
  /\ pending[i].await = "fetch"
  /\ status' = SuccessStatus(example)
  /\ formData' = EmptyForm
  /\ pending' = Remove(pending, i)
  /\ successes' = Append(successes, [formData |-> pending[i].formData, body |-> pending[i].body,
                                   after |-> <<status', formData'>>])
  /\ UNCHANGED <<example, component, tree, submits, sent>>
  /\ lastEvent' = "ok"

(* fetch resolves with a non-success status *)
ResponseNotOk(i) ==
  /\ pending[i].await = "fetch"
  /\ IF example = 1
     THEN /\ pending' = [pending EXCEPT ![i].await = "json"]
          /\ UNCHANGED status
     ELSE /\ pending' = Remove(pending, i)
          /\ status' = HttpErrorStatus(example)
  /\ UNCHANGED <<example, component, tree, formData, submits, sent, successes>>
  /\ lastEvent' = "notOk"

(* first example: response.json() resolves *)
JsonParsed(i) ==
  /\ pending[i].await = "json"
  /\ status' = HttpErrorStatus(example)
  /\ pending' = Remove(pending, i)
  /\ UNCHANGED <<example, component, tree, formData, submits, sent, successes>>
  /\ lastEvent' = "jsonParsed"

(* response.json() awaited outside the try block: its rejection sets nothing *)
JsonFails_NoCatch(i) ==
  /\ pending[i].await = "json"
  /\ pending' = Remove(pending, i)
  /\ UNCHANGED <<example, component, tree, formData, status, submits, sent, successes>>
  /\ lastEvent' = "jsonFails"

(* first example: response.json() rejects, the catch block runs *)
JsonFails(i) ==
  /\ pending[i].await = "json"
  /\ status' = CatchStatus(example)
  /\ pending' = Remove(pending, i)
  /\ UNCHANGED <<example, component, tree, formData, submits, sent, successes>>
  /\ lastEvent' = "jsonFails"

(* a catch block that puts the submitted values back into the form *)
FetchRejects_Restores(i) ==
  /\ pending[i].await = "fetch"
  /\ status' = CatchStatus(example)
  /\ formData' = pending[i].formData
  /\ pending' = Remove(pending, i)
  /\ UNCHANGED <<example, component, tree, submits, sent, successes>>
  /\ lastEvent' = "rejected"

(* a catch block that sends the request again *)
FetchRejects_Retries(i) ==
  /\ pending[i].await = "fetch"
  /\ status' = CatchStatus(example)
  /\ sent' = sent + 1
  /\ UNCHANGED <<example, component, tree, formData, pending, submits, successes>>
  /\ lastEvent' = "rejected"

(* a rejected fetch with no catch block around it *)
FetchRejects_Uncaught(i) ==
  /\ pending[i].await = "fetch"
  /\ pending' = Remove(pending, i)
  /\ UNCHANGED <<example, component, tree, formData, status, submits, sent, successes>>
  /\ lastEvent' = "rejected"

(* fetch rejects, the catch block runs *)
FetchRejects(i) ==
  /\ pending[i].await = "fetch"
  /\ status' = CatchStatus(example)
  /\ pending' = Remove(pending, i)
  /\ UNCHANGED <<example, component, tree, formData, submits, sent, successes>>
  /\ lastEvent' = "rejected"

(* React renders the landing page, at mount and at any later re-render *)
Render ==
  /\ component = "App"
  /\ tree' = App
  /\ UNCHANGED <<example, component, formData, status, pending, submits, sent, successes>>
  /\ lastEvent' = "render"

UserChange ==
  /\ component = "ContactForm"
  /\ \E f \in Fields : \E v \in Values : handleChange(f, v)

UserSubmit == component = "ContactForm" /\ handleSubmit

NetOk == \E i \in DOMAIN pending : ResponseOk(i)

NetNotOk == \E i \in DOMAIN pending : ResponseNotOk(i)

NetJsonParsed == \E i \in DOMAIN pending : JsonParsed(i)

NetJsonFails == \E i \in DOMAIN pending : JsonFails(i)

NetRejects == \E i \in DOMAIN pending : FetchRejects(i)

Network == NetOk \/ NetNotOk \/ NetJsonParsed \/ NetJsonFails \/ NetRejects

Next ==
  \/ UserChange \/ UserSubmit
  \/ NetOk \/ NetNotOk \/ NetJsonParsed \/ NetJsonFails \/ NetRejects
  \/ Render

Spec == Init /\ [][Next]_vars

FairSpec == Spec /\ WF_vars(Network)

TypeOK ==
  /\ example \in Examples
  /\ formData \in [Fields -> Values]
  /\ submits \in 0..MaxSubmits
  /\ sent \in 0..MaxSubmits
  /\ Len(pending) <= MaxPending
  /\ lastEvent \in Events
  /\ component \in Components
  /\ tree \in {Unrendered, App}

(* ---- the claims ---- *)
HttpFailureEvents == {"jsonParsed", "jsonFails"} \cup (IF example = 2 THEN {"notOk"} ELSE {})

FailureEvents == HttpFailureEvents \cup {"rejected"}

Shown == SubmissionStatus(example, status)

(* C1: after handleSubmit has handled a success-range response, the status *)
(* is success and name, email and message are all the empty string,        *)
(* whatever values were submitted.                                         *)
C1_SuccessClears ==
  lastEvent = "ok" => Shown = "success" /\ \A f \in Fields : formData[f] = ""

C1_Witness ==
  /\ lastEvent = "ok"
  /\ successes[Len(successes)].formData = [name |-> "a", email |-> "b", message |-> "a"]
  /\ Shown = "success"
  /\ formData = EmptyForm

(* C2 as stated: after a non-success response has been handled the status *)
(* is error and every field holds the value it had just before the        *)
(* submission, i.e. the value the request was sent with.                   *)
C2_FieldsAsSubmitted ==
  [][lastEvent' \in HttpFailureEvents =>
       /\ SubmissionStatus(example, status') = "error"
       /\ \E i \in DOMAIN pending :
            /\ pending' = Remove(pending, i)
            /\ formData' = pending[i].formData]_vars

(* C2 amended: handling a non-success response sets the status to error   *)
(* and writes nothing to the fields, parsed body or not; in the first     *)
(* example the request stays outstanding while the body is read.           *)
C2_FailureKeepsFields ==
  [][/\ lastEvent' \in HttpFailureEvents =>
          /\ SubmissionStatus(example, status') = "error"
          /\ formData' = formData
          /\ Len(pending') = Len(pending) - 1
     /\ (lastEvent' = "notOk" /\ example = 1) =>
          /\ formData' = formData
          /\ Len(pending') = Len(pending)
          /\ status' = status]_vars

C2_Witness ==
  /\ lastEvent = "jsonFails"
  /\ Shown = "error"
  /\ formData = [name |-> "a", email |-> "b", message |-> "b"]
  /\ pending = <<>>

(* C3 as stated: a rejected fetch leaves exactly the state a non-success  *)
(* response leaves: the same status value and message, fields untouched.   *)
C3_SameFailureState ==
  lastEvent = "rejected" =>
    /\ status = HttpErrorStatus(example)
    /\ Message(example, status) = Message(example, HttpErrorStatus(example))

(* C3 amended: both failure kinds show an error and write nothing to the  *)
(* fields; in the first example they leave the same status and message,   *)
(* in the second the message is "Failed to send message." for a           *)
(* non-success response and "An error occurred." for a rejected fetch.     *)
C3_FailureKinds ==
  [][lastEvent' \in FailureEvents =>
       /\ formData' = formData
       /\ SubmissionStatus(example, status') = "error"
       /\ example = 1 =>
            /\ status' = "error"
            /\ Message(example, status') = "Error sending message. Please try again."
       /\ example = 2 =>
            Message(example, status') =
              IF lastEvent' = "rejected" THEN "An error occurred."
                                         ELSE "Failed to send message."]_vars

C3_Witness ==
  /\ lastEvent = "rejected"
  /\ example = 1
  /\ status = "error"
  /\ RequiredFilled

(* C4 as stated: while the status is submitting the submit control is     *)
(* disabled, and at most one request is outstanding.                       *)
C4_OneOutstanding ==
  /\ Shown = "submitting" => SubmitDisabled
  /\ Len(pending) <= 1

AllowedTransitions ==
  { <<"idle", "submitting">>, <<"submitting", "success">>,
    <<"submitting", "error">>, <<"error", "submitting">> }

(* C5 as stated, on the first example (the one whose button is disabled   *)
(* while submitting): the status only ever moves idle -> submitting,       *)
(* submitting -> success, submitting -> error, or error -> submitting.     *)
C5_FourTransitions ==
  [][(example = 1 /\ SubmissionStatus(example, status') # Shown) =>
       <<Shown, SubmissionStatus(example, status')>> \in AllowedTransitions]_vars

(* C5 amended: the status moves idle -> submitting, submitting -> success, *)
(* submitting -> error, error -> submitting and success -> submitting; in  *)
(* the second example a response to one of several outstanding requests    *)
(* can also move it between success and error.  It never returns to idle   *)
(* and never leaves idle for success or error.                             *)
C5_Transitions ==
  [][SubmissionStatus(example, status') # Shown =>
       <<Shown, SubmissionStatus(example, status')>> \in
          AllowedTransitions \cup { <<"success", "submitting">> } \cup
          (IF example = 2 THEN { <<"success", "error">>, <<"error", "success">> }
                          ELSE {})]_vars

C5_Witness ==
  /\ example = 1
  /\ lastEvent = "submit"
  /\ submits = 2
  /\ Len(successes) = 1
  /\ Shown = "submitting"

(* C6: every submit event sends exactly one request, the number of        *)
(* requests sent equals the number of submit events, and nothing but a     *)
(* submit event sends one (no retry after a failure).                      *)
C6_OneRequestPerSubmit ==
  /\ [](sent = submits)
  /\ [][/\ lastEvent' = "submit" =>
             sent' = sent + 1 /\ Len(pending') = Len(pending) + 1
        /\ lastEvent' # "submit" =>
             sent' = sent /\ Len(pending') <= Len(pending)]_vars

C6_Witness ==
  /\ lastEvent \in FailureEvents
  /\ Shown = "error"
  /\ sent = 1
  /\ submits = 1
  /\ pending = <<>>

(* C7: the body of a request is the object with exactly the keys name,    *)
(* email and message, holding the field values at the submit event; later  *)
(* edits leave the bodies of outstanding requests as they were.            *)
C7_PayloadAtSubmit ==
  [][/\ lastEvent' = "submit" =>
          /\ Len(pending') = Len(pending) + 1
          /\ SubSeq(pending', 1, Len(pending)) = pending
          /\ pending'[Len(pending')].body =
               << <<"name", formData.name>>, <<"email", formData.email>>,
                  <<"message", formData.message>> >>
     /\ lastEvent' = "change" => pending' = pending]_vars

C7_Witness ==
  /\ lastEvent = "change"
  /\ Len(pending) = 1
  /\ pending[1].body = << <<"name", "a">>, <<"email", "b">>, <<"message", "a">> >>
  /\ formData = [name |-> "b", email |-> "b", message |-> ""]

(* C8: a status of submitting always has a request outstanding behind it, *)
(* change and submit events remove no outstanding request, a request       *)
(* leaves only by completing into success or error, and if the network     *)
(* settles then submitting leads to success or error.                      *)
C8_RunsToCompletion ==
  /\ [](Shown = "submitting" => pending # <<>>)
  /\ [][/\ lastEvent' \in {"change", "submit"} =>
             SubSeq(pending', 1, Len(pending)) = pending
        /\ Len(pending') < Len(pending) =>
             SubmissionStatus(example, status') \in {"success", "error"}]_vars
  /\ (Shown = "submitting" ~> Shown \in {"success", "error"})

C8_Witness ==
  /\ Shown = "submitting"
  /\ lastEvent = "change"
  /\ Len(pending) = 1
  /\ pending[1].await = "json"

(* C9: two successful submissions of the same values are independent:     *)
(* after each the status is success and the fields are empty, both sent    *)
(* the same payload, and both left the same component state.               *)
C9_RepeatedSuccess ==
  \A i \in DOMAIN successes : \A j \in DOMAIN successes :
    /\ SubmissionStatus(example, successes[i].after[1]) = "success"
    /\ successes[i].after[2] = EmptyForm
    /\ successes[i].formData = successes[j].formData =>
         /\ successes[i].body = successes[j].body
         /\ successes[i].after = successes[j].after

C9_Witness ==
  /\ Len(successes) = 2
  /\ successes[1].formData = [name |-> "a", email |-> "b", message |-> "b"]
  /\ successes[2].formData = successes[1].formData
  /\ lastEvent = "ok"
  /\ pending = <<>>

(* C10: the component mounts with status idle and empty fields, and the   *)
(* status is always one of idle, submitting, success, error.               *)
C10_StatusEnumeration ==
  /\ Shown \in {"idle", "submitting", "success", "error"}
  /\ lastEvent = "mount" => Shown = "idle" /\ formData = EmptyForm

C10_Witness ==
  /\ example = 2
  /\ status = "Failed to send message."
  /\ Shown = "error"
  /\ submits = 2

FixedTexts ==
  {"Stay in", "school", "peeps", "And yes. We can help make that a reality.",
   "Join the program", "Apply now"}

(* C11: a rendered landing page contains each fixed text exactly once and *)
(* each of the logo and the hero image exactly once, and a render after    *)
(* the first produces the tree that was already there.                     *)
C11_LandingPage ==
  /\ [](tree # Unrendered =>
          /\ \A t \in FixedTexts : TextCount(tree, t) = 1
          /\ ImageCount(tree, logo) = 1
          /\ ImageCount(tree, heroImage) = 1)
  /\ [][tree # Unrendered => tree' = tree]_vars

C11_Witness ==
  /\ tree # Unrendered
  /\ Len(Leaves(tree)) = 9
  /\ Leaves(tree)[1] = Img("logo-photo", logo, "logo")
  /\ Leaves(tree)[9].src = heroImage

(* C12: a change event sets one field to the typed value and leaves the   *)
(* other two fields and the status as they were, in every status; the      *)
(* status changes only in handleSubmit: at the submit event and at the     *)
(* outcome of the network call.                                            *)
C12_ChangeFrame ==
  [][/\ lastEvent' = "change" =>
          /\ status' = status
          /\ \E f \in Fields : \E v \in Values : formData' = [formData EXCEPT ![f] = v]
     /\ status' # status =>
          lastEvent' \in {"submit", "ok", "notOk", "jsonParsed", "jsonFails", "rejected"}]_vars

C12_Witness ==
  /\ lastEvent = "change"
  /\ Shown = "success"
  /\ formData = [name |-> "", email |-> "", message |-> "a"]
  /\ Len(successes) = 1

(* C13: the fields can be edited while a request is outstanding; when a   *)
(* request succeeds the fields are emptied, edits made meanwhile included; *)
(* when it fails the fields keep what they held when the failure was       *)
(* handled, edits made meanwhile included.                                 *)
C13_InFlightEdits ==
  /\ [](pending # <<>> => \A f \in Fields : \A v \in Values : ENABLED handleChange(f, v))
  /\ [][\A i \in DOMAIN pending :
          (pending' = Remove(pending, i) /\ formData # pending[i].formData) =>
             /\ lastEvent' = "ok" => formData' = EmptyForm
             /\ lastEvent' \in FailureEvents =>
                  formData' = formData /\ formData' # pending[i].formData]_vars

C13_Witness ==
  /\ lastEvent = "rejected"
  /\ submits = 1
  /\ successes = <<>>
  /\ pending = <<>>
  /\ formData = [name |-> "", email |-> "b", message |-> "a"]
====
